---- MODULE Spec2Model ----
(***************************************************************************)
(* A model of the two browser-activity scripts of focusDistraction:         *)
(*   sample_scripts/chromeCheck.py    getCurrentChromeTabs                  *)
(*   sample_scripts/chromeHistory.py  getRecentChromeHistoryWAL,            *)
(*                                    getRecentChromeHistoryCopy,           *)
(*                                    formatTimeDelta                       *)
(* Text is a sequence of one-character strings.  An optional value (a SQL   *)
(* NULL, Python's None, a file that may not exist) is a sequence of length  *)
(* zero or one.  Numbers that do not fit TLC's integers (the 1601 epoch     *)
(* offset in seconds) are kept in mixed radix: days, seconds, microseconds. *)
(***************************************************************************)
EXTENDS Integers, Sequences, FiniteSets, TLC

VARIABLES
    \* chromeCheck.py
    tabsPc,        \* position inside getCurrentChromeTabs
    tabsInput,     \* what the browser shows: the lines osascript will print
    tabsProc,      \* the CompletedProcess / failure of subprocess.run
    tabsRuns,      \* subprocess invocations made by the current call
    tabsLines,     \* lines of the for loop not yet visited
    tabs,          \* the local list 'tabs'
    tabsRet,       \* how the last call ended
    \* chromeHistory.py, the two readers
    histExists,    \* the browser's History file exists
    histVisits,    \* committed content of the History file (visits table)
    histJournal,   \* the browser's History-journal file, when present
    scratch,       \* /tmp/chrome_history_copy.db
    scratchJournal,\* /tmp/chrome_history_copy.db-journal
    pc,            \* position inside the running reader
    limit,         \* the argument 'limit'
    connOpen,      \* a connection made by sqlite3.connect is open
    rows,          \* the local 'rows' (cursor.fetchall())
    history,       \* the local list 'history'
    retWal,        \* how the last getRecentChromeHistoryWAL call ended
    retCopy,       \* how the last getRecentChromeHistoryCopy call ended
    \* chromeHistory.py, formatTimeDelta
    fmtNow,        \* the clock: what datetime.now() returns
    fmtVisit,      \* its argument visit_datetime
    fmtRet         \* its return value

tabsVars == <<tabsPc, tabsInput, tabsProc, tabsRuns, tabsLines, tabs, tabsRet>>
histVars == <<histExists, histVisits, histJournal, scratch, scratchJournal, pc,
              limit, connOpen, rows, history, retWal, retCopy>>
fmtVars  == <<fmtNow, fmtVisit, fmtRet>>
vars     == <<tabsVars, histVars, fmtVars>>

-----------------------------------------------------------------------------
(* Bounds of the model *)

MaxLines == 2
MaxWindow == 2
MaxVisits == 2
MaxLimit == 2
MaxDays == 2

-----------------------------------------------------------------------------
(* Optional values and small helpers *)

None == <<>>
Some(x) == <<x>>
IsSome(o) == Len(o) = 1
Get(o) == o[1]

Min(a, b) == IF a < b THEN a ELSE b

RECURSIVE SeqsUpTo(_, _)
SeqsUpTo(S, n) ==
    IF n = 0 THEN {<<>>}
    ELSE LET shorter == SeqsUpTo(S, n - 1)
         IN  shorter \cup {Append(s, x) : s \in shorter, x \in S}

RECURSIVE Concat(_)
Concat(ss) == IF ss = <<>> THEN <<>> ELSE Head(ss) \o Concat(Tail(ss))

-----------------------------------------------------------------------------
(* Python's str methods used by getCurrentChromeTabs *)

IsSpace(c) == c \in {" ", "\t", "\n"}

RECURSIVE LStrip(_)
LStrip(s) == IF s # <<>> /\ IsSpace(Head(s)) THEN LStrip(Tail(s)) ELSE s

RECURSIVE RStrip(_)
RStrip(s) ==
    IF s # <<>> /\ IsSpace(s[Len(s)]) THEN RStrip(SubSeq(s, 1, Len(s) - 1)) ELSE s

\* str.strip(): leading and trailing whitespace of the whole text
Strip(s) == RStrip(LStrip(s))

\* str.split(sep): always at least one field; "" splits into [""]
RECURSIVE Split(_, _)
Split(s, sep) ==
    IF \E i \in 1..Len(s) : s[i] = sep
    THEN LET i == CHOOSE k \in 1..Len(s) :
                      s[k] = sep /\ \A j \in 1..(k - 1) : s[j] # sep
         IN  <<SubSeq(s, 1, i - 1)>> \o Split(SubSeq(s, i + 1, Len(s)), sep)
    ELSE <<s>>

Digits == {"0", "1", "2", "3", "4", "5", "6", "7", "8", "9"}

DigitValue(c) ==
    CASE c = "0" -> 0 [] c = "1" -> 1 [] c = "2" -> 2 [] c = "3" -> 3
      [] c = "4" -> 4 [] c = "5" -> 5 [] c = "6" -> 6 [] c = "7" -> 7
      [] c = "8" -> 8 [] c = "9" -> 9

DigitChar(d) == <<"0", "1", "2", "3", "4", "5", "6", "7", "8", "9">>[d + 1]

\* int(text) accepts surrounding whitespace around a run of decimal digits
\* (signs and underscores are outside the alphabet of the model)
IsIntLiteral(s) ==
    LET t == Strip(s) IN t # <<>> /\ \A i \in 1..Len(t) : t[i] \in Digits

RECURSIVE DecimalValue(_)
DecimalValue(t) ==
    IF t = <<>> THEN 0
    ELSE DecimalValue(SubSeq(t, 1, Len(t) - 1)) * 10 + DigitValue(t[Len(t)])

IntOf(s) == DecimalValue(Strip(s))

\* AppleScript's coercion of the integer windowNum to text
RECURSIVE IntToText(_)
IntToText(n) ==
    IF n < 10 THEN <<DigitChar(n)>>
    ELSE IntToText(n \div 10) \o <<DigitChar(n % 10)>>

-----------------------------------------------------------------------------
(* chromeCheck.py: getCurrentChromeTabs *)

\* What a browser tab can show.  A url with leading whitespace and a title
\* holding the delimiter are text like any other to the script.
UrlPool == {<<>>, <<"a">>, <<" ", "a">>}
TitlePool == {<<>>, <<"b", " ">>, <<"b", "|", "c">>}
WindowPool == (1..MaxWindow) \cup {12}

TabItems ==
    [kind : {"tab"}, url : UrlPool, title : TitlePool, window : WindowPool]

\* Other lines osascript may print: empty, blank, one field, two fields, and
\* three fields whose last one is no integer
RawPool == {<<>>, <<" ">>, <<"a">>, <<"a", "|", "b">>, <<"a", "|", "b", "|", "x">>}
RawItems == [kind : {"raw"}, text : RawPool]

Items == TabItems \cup RawItems

\* One line of the output, as the AppleScript builds it:
\* tabURL & "|" & tabTitle & "|" & windowNum
RenderLine(item) ==
    IF item.kind = "tab"
    THEN item.url \o <<"|">> \o item.title \o <<"|">> \o IntToText(item.window)
    ELSE item.text

\* The whole standard output: every line is followed by a newline
RenderOutput(items) ==
    Concat([i \in 1..Len(items) |-> RenderLine(items[i]) \o <<"\n">>])

ProcKinds == {"ok", "nonzero", "timeout", "oserror"}

NoRet == [status |-> "none", value |-> <<>>]
Returned(v) == [status |-> "returned", value |-> v]
Raised == [status |-> "raised", value |-> <<>>]

\* subprocess.run(..., timeout=5): one invocation, whose outcome is the
\* environment's; the tabs the browser shows are those of the initial state
TabsRun ==
    /\ tabsPc = "idle"
    /\ \E kind \in ProcKinds :
          /\ tabsProc' = [kind |-> kind,
                          stdout |-> IF kind \in {"ok", "nonzero"}
                                     THEN RenderOutput(tabsInput) ELSE <<>>]
          /\ tabsPc' = CASE kind = "timeout" -> "t_timeout"
                         [] kind = "oserror" -> "t_except"
                         [] OTHER -> "t_check"
    /\ tabsRuns' = 1
    /\ tabsLines' = <<>>
    /\ tabs' = <<>>
    /\ tabsRet' = NoRet
    /\ UNCHANGED <<tabsInput, histVars, fmtVars>>

ExitFailedIgnored(proc) == FALSE

\* if result.returncode != 0
ExitFailed(proc) == proc.kind = "nonzero"

\* the returncode check, then result.stdout.strip().split('\n')
TabsCheckExit ==
    /\ tabsPc = "t_check"
    /\ IF ExitFailed(tabsProc)
       THEN /\ tabsRet' = Returned(<<>>)
            /\ tabsPc' = "idle"
            /\ UNCHANGED tabsLines
       ELSE /\ tabsLines' = Split(Strip(tabsProc.stdout), "\n")
            /\ tabsPc' = "t_parse"
            /\ UNCHANGED tabsRet
    /\ UNCHANGED <<tabsInput, tabsProc, tabsRuns, tabs, histVars, fmtVars>>

FieldCountAtLeast(parts) == Len(parts) >= 3

\* if len(parts) == 3
FieldCountOK(parts) == Len(parts) = 3

\* the dict appended for one line
TabRecord(parts) ==
    [url |-> parts[1], title |-> parts[2], window |-> IntOf(parts[3])]

\* One iteration of the for loop.  int(parts[2]) raises ValueError on a field
\* that is no integer; the exception leaves the loop.
TabsParseLine ==
    /\ tabsPc = "t_parse"
    /\ tabsLines # <<>>
    /\ LET line == Head(tabsLines)
           parts == Split(line, "|")
       IN  IF line # <<>> /\ FieldCountOK(parts)
           THEN IF IsIntLiteral(parts[3])
                THEN /\ tabs' = Append(tabs, TabRecord(parts))
                     /\ tabsLines' = Tail(tabsLines)
                     /\ tabsPc' = "t_parse"
                ELSE /\ tabsPc' = "t_except"
                     /\ UNCHANGED <<tabs, tabsLines>>
           ELSE /\ tabsLines' = Tail(tabsLines)
                /\ UNCHANGED <<tabs, tabsPc>>
    /\ UNCHANGED <<tabsInput, tabsProc, tabsRuns, tabsRet, histVars, fmtVars>>

\* return tabs
TabsReturn ==
    /\ tabsPc = "t_parse"
    /\ tabsLines = <<>>
    /\ tabsRet' = Returned(tabs)
    /\ tabsPc' = "idle"
    /\ UNCHANGED <<tabsInput, tabsProc, tabsRuns, tabsLines, tabs, histVars, fmtVars>>

\* both except clauses end in 'return []'
TabsHandler == Returned(<<>>)

\* except subprocess.TimeoutExpired
TabsOnTimeout ==
    /\ tabsPc = "t_timeout"
    /\ tabsRet' = TabsHandler
    /\ tabsPc' = "idle"
    /\ UNCHANGED <<tabsInput, tabsProc, tabsRuns, tabsLines, tabs, histVars, fmtVars>>

\* except Exception
TabsOnException ==
    /\ tabsPc = "t_except"
    /\ tabsRet' = TabsHandler
    /\ tabsPc' = "idle"
    /\ UNCHANGED <<tabsInput, tabsProc, tabsRuns, tabsLines, tabs, histVars, fmtVars>>

NextTabs ==
    \/ TabsRun
    \/ TabsCheckExit
    \/ TabsParseLine
    \/ TabsReturn
    \/ TabsOnTimeout
    \/ TabsOnException

-----------------------------------------------------------------------------
(* chromeHistory.py: the History store and the query of both readers *)

MicrosPerSecond == 1000000
SecondsPerDay == 86400
\* 11644473600 seconds, the gap between 1601-01-01 and 1970-01-01, in days:
\* 134774 * 86400 = 11644473600
EpochOffsetDays == 134774

\* The urls table: id -> url, title, visit_count.  One page has a title, one
\* an empty title, one none (NULL).
UrlsTable ==
    [id \in {1, 2, 3} |->
        CASE id = 1 -> [url |-> "https://youtube.com/w", title |-> Some("Video"), visit_count |-> 3]
          [] id = 2 -> [url |-> "https://b.example/", title |-> Some(""), visit_count |-> 1]
          [] id = 3 -> [url |-> "https://c.example/", title |-> None, visit_count |-> 2]]

\* Rows of the visits table: url (a urls.id, or an id no urls row has),
\* visit_time and visit_duration in microseconds, either of them NULL or 0
VisitPool ==
    { [url |-> 1, visit_time |-> Some(1500000), visit_duration |-> Some(2000000)],
      [url |-> 2, visit_time |-> Some(0), visit_duration |-> Some(0)],
      [url |-> 3, visit_time |-> None, visit_duration |-> None],
      [url |-> 9, visit_time |-> Some(3000000), visit_duration |-> None] }

\* FROM urls JOIN visits ON urls.id = visits.url
RECURSIVE Join(_)
Join(visits) ==
    IF visits = <<>> THEN <<>>
    ELSE LET v == Head(visits)
         IN  (IF v.url \in DOMAIN UrlsTable
              THEN <<[url |-> UrlsTable[v.url].url,
                      title |-> UrlsTable[v.url].title,
                      visit_count |-> UrlsTable[v.url].visit_count,
                      chrome_time |-> v.visit_time,
                      duration |-> v.visit_duration]>>
              ELSE <<>>) \o Join(Tail(visits))

\* SQLite orders NULL before every number, so last in a descending order
TimeKey(row) == IF IsSome(row.chrome_time) THEN Get(row.chrome_time) ELSE -1

\* insert r after every row whose key is not smaller (rows of equal
\* visit_time keep their table order)
RECURSIVE InsertDesc(_, _)
InsertDesc(sorted, r) ==
    IF sorted = <<>> THEN <<r>>
    ELSE IF TimeKey(Head(sorted)) >= TimeKey(r)
         THEN <<Head(sorted)>> \o InsertDesc(Tail(sorted), r)
         ELSE <<r>> \o sorted

\* ORDER BY visits.visit_time DESC
RECURSIVE OrderDesc(_)
OrderDesc(rs) ==
    IF rs = <<>> THEN <<>>
    ELSE InsertDesc(OrderDesc(SubSeq(rs, 1, Len(rs) - 1)), rs[Len(rs)])

\* the SELECT of both readers: join, order, LIMIT ?
Query(visits, n) ==
    LET ordered == OrderDesc(Join(visits))
    IN  SubSeq(ordered, 1, Min(n, Len(ordered)))

\* A -journal file: hot once its header is written out, and then it records
\* the content a rollback restores
ColdJournal == [hot |-> FALSE, content |-> <<>>]
HotJournal(visits) == [hot |-> TRUE, content |-> visits]

\* What a connection reads from a database file and the -journal file next to
\* it: SQLite rolls a hot journal back into the database before the first
\* read, which restores the content the journal recorded
Recover(db, journal) ==
    IF IsSome(journal) /\ Get(journal).hot THEN Get(journal).content ELSE db

\* ... and deletes the journal it rolled back
AfterRecover(journal) ==
    IF IsSome(journal) /\ Get(journal).hot THEN None ELSE journal

NoCall == [status |-> "none", value |-> <<>>, failed |-> FALSE, limit |-> 0]
Ended(st, v, f, n) == [status |-> st, value |-> v, failed |-> f, limit |-> n]

-----------------------------------------------------------------------------
(* The browser, which owns the History file and its journal.  It acts       *)
(* between calls of the readers.                                            *)

\* the browser starts a transaction: the journal appears, and records the
\* committed content once it is hot
BrowserBegin ==
    /\ pc = "idle"
    /\ histExists
    /\ histJournal = None
    /\ \E hot \in BOOLEAN :
          histJournal' = Some(IF hot THEN HotJournal(histVisits) ELSE ColdJournal)
    /\ UNCHANGED <<histExists, histVisits, scratch, scratchJournal, pc, limit,
                   connOpen, rows, history, retWal, retCopy, tabsVars, fmtVars>>

\* the browser commits: a visit is recorded and the journal is deleted.
\* Results of earlier calls are about another content.
BrowserCommit ==
    /\ pc = "idle"
    /\ histExists
    /\ histJournal # None
    /\ Len(histVisits) < MaxVisits
    /\ \E v \in VisitPool : histVisits' = Append(histVisits, v)
    /\ histJournal' = None
    /\ retWal' = NoCall
    /\ retCopy' = NoCall
    /\ UNCHANGED <<histExists, scratch, scratchJournal, pc, limit, connOpen, rows,
                   history, tabsVars, fmtVars>>

\* The interpreter finalizes a connection object nothing refers to any more
GcFinalize ==
    /\ pc = "idle"
    /\ connOpen
    /\ connOpen' = FALSE
    /\ UNCHANGED <<histExists, histVisits, histJournal, scratch, scratchJournal,
                   pc, limit, rows, history, retWal, retCopy, tabsVars, fmtVars>>

-----------------------------------------------------------------------------
(* chromeHistory.py: getRecentChromeHistoryWAL *)

\* if chrome_time: datetime.fromtimestamp(chrome_time / 1000000 - 11644473600),
\* as days, seconds and microseconds from 1970-01-01; else None
WalVisitTime(chrome_time) ==
    IF IsSome(chrome_time) /\ Get(chrome_time) # 0
    THEN LET t == Get(chrome_time)
         IN  Some([days |-> (t \div MicrosPerSecond) \div SecondsPerDay - EpochOffsetDays,
                   secs |-> (t \div MicrosPerSecond) % SecondsPerDay,
                   micros |-> t % MicrosPerSecond])
    ELSE None

\* the dict appended for one row
WalEntry(row) ==
    [url |-> row.url,
     title |-> IF IsSome(row.title) /\ Get(row.title) # "" THEN Get(row.title)
               ELSE "(No title)",
     visit_time |-> WalVisitTime(row.chrome_time),
     visit_count |-> row.visit_count,
     duration_seconds |->
        IF IsSome(row.duration) /\ Get(row.duration) # 0
        THEN [secs |-> Get(row.duration) \div MicrosPerSecond,
              micros |-> Get(row.duration) % MicrosPerSecond]
        ELSE [secs |-> 0, micros |-> 0]]

\* the existence check, then the try block is entered (a connection an
\* earlier call left open has been finalized by the time of the next call)
WalCall ==
    /\ pc = "idle"
    /\ ~connOpen
    /\ \E n \in 1..MaxLimit :
          /\ limit' = IF histExists THEN n ELSE 0
          /\ IF histExists
             THEN pc' = "w_connect" /\ retWal' = NoCall
             ELSE pc' = "idle" /\ retWal' = Ended("returned", <<>>, TRUE, 0)
    /\ rows' = <<>>
    /\ history' = <<>>
    /\ UNCHANGED <<histExists, histVisits, histJournal, scratch, scratchJournal,
                   connOpen, retCopy, tabsVars, fmtVars>>

\* sqlite3.connect(db_uri, uri=True); a file that cannot be opened raises
\* sqlite3.OperationalError
WalConnect ==
    /\ pc = "w_connect"
    /\ \E ok \in BOOLEAN :
          IF ok THEN connOpen' = TRUE /\ pc' = "w_query"
                ELSE connOpen' = connOpen /\ pc' = "w_except_op"
    /\ UNCHANGED <<histExists, histVisits, histJournal, scratch, scratchJournal,
                   limit, rows, history, retWal, retCopy, tabsVars, fmtVars>>

\* cursor.execute / fetchall on the live file: the rows, an OperationalError
\* (database is locked) or another error (file is not a database)
WalQuery ==
    /\ pc = "w_query"
    /\ \E outcome \in {"ok", "operational", "other"} :
          /\ rows' = IF outcome = "ok" THEN Query(histVisits, limit) ELSE rows
          /\ pc' = CASE outcome = "ok" -> "w_convert"
                     [] outcome = "operational" -> "w_except_op"
                     [] OTHER -> "w_except"
    /\ UNCHANGED <<histExists, histVisits, histJournal, scratch, scratchJournal,
                   limit, connOpen, history, retWal, retCopy, tabsVars, fmtVars>>

\* the for loop over rows; converting a row may raise (a timestamp outside
\* the platform's range, a column of another type)
WalConvert ==
    /\ pc = "w_convert"
    /\ \E ok \in BOOLEAN :
          IF ok \/ rows = <<>>
          THEN /\ history' = [i \in 1..Len(rows) |-> WalEntry(rows[i])]
               /\ pc' = "w_close"
          ELSE /\ history' = history
               /\ pc' = "w_except"
    /\ UNCHANGED <<histExists, histVisits, histJournal, scratch, scratchJournal,
                   limit, connOpen, rows, retWal, retCopy, tabsVars, fmtVars>>

\* conn.close(); return history
WalClose ==
    /\ pc = "w_close"
    /\ connOpen' = FALSE
    /\ retWal' = Ended("returned", history, FALSE, limit)
    /\ pc' = "idle"
    /\ limit' = 0
    /\ rows' = <<>>
    /\ history' = <<>>
    /\ UNCHANGED <<histExists, histVisits, histJournal, scratch, scratchJournal, retCopy, tabsVars, fmtVars>>

\* except sqlite3.OperationalError: print, return []
WalExceptOperational ==
    /\ pc = "w_except_op"
    /\ retWal' = Ended("returned", <<>>, TRUE, 0)
    /\ pc' = "idle"
    /\ limit' = 0
    /\ rows' = <<>>
    /\ history' = <<>>
    /\ UNCHANGED <<histExists, histVisits, histJournal, scratch, scratchJournal, connOpen, retCopy, tabsVars, fmtVars>>

\* except Exception: print, return []
WalExcept ==
    /\ pc = "w_except"
    /\ retWal' = Ended("returned", <<>>, TRUE, 0)
    /\ pc' = "idle"
    /\ limit' = 0
    /\ rows' = <<>>
    /\ history' = <<>>
    /\ UNCHANGED <<histExists, histVisits, histJournal, scratch, scratchJournal, connOpen, retCopy, tabsVars, fmtVars>>

-----------------------------------------------------------------------------
(* chromeHistory.py: getRecentChromeHistoryCopy *)

CopyVisitTimeNoOffset(chrome_time) ==
    IF IsSome(chrome_time) /\ Get(chrome_time) # 0
    THEN LET t == Get(chrome_time)
         IN  Some([days |-> (t \div MicrosPerSecond) \div SecondsPerDay,
                   secs |-> (t \div MicrosPerSecond) % SecondsPerDay,
                   micros |-> t % MicrosPerSecond])
    ELSE None

\* if chrome_time: ... else: visit_datetime = None
CopyVisitTime(chrome_time) ==
    IF IsSome(chrome_time) /\ Get(chrome_time) # 0
    THEN LET t == Get(chrome_time)
         IN  Some([days |-> (t \div MicrosPerSecond) \div SecondsPerDay - EpochOffsetDays,
                   secs |-> (t \div MicrosPerSecond) % SecondsPerDay,
                   micros |-> t % MicrosPerSecond])
    ELSE None

\* the dict appended for one row
CopyEntry(row) ==
    [url |-> row.url,
     title |-> IF IsSome(row.title) /\ Get(row.title) # "" THEN Get(row.title)
               ELSE "(No title)",
     visit_time |-> CopyVisitTime(row.chrome_time),
     visit_count |-> row.visit_count,
     duration_seconds |->
        IF IsSome(row.duration) /\ Get(row.duration) # 0
        THEN [secs |-> Get(row.duration) \div MicrosPerSecond,
              micros |-> Get(row.duration) % MicrosPerSecond]
        ELSE [secs |-> 0, micros |-> 0]]

\* the existence check, then the try block is entered (a connection an
\* earlier call left open has been finalized by the time of the next call)
CopyCall ==
    /\ pc = "idle"
    /\ ~connOpen
    /\ \E n \in 1..MaxLimit :
          /\ limit' = IF histExists THEN n ELSE 0
          /\ IF histExists
             THEN pc' = "c_copy" /\ retCopy' = NoCall
             ELSE pc' = "idle" /\ retCopy' = Ended("returned", <<>>, TRUE, 0)
    /\ rows' = <<>>
    /\ history' = <<>>
    /\ UNCHANGED <<histExists, histVisits, histJournal, scratch, scratchJournal,
                   connOpen, retWal, tabsVars, fmtVars>>

\* shutil.copy2(history_path, temp_path)
CopyStore ==
    /\ pc = "c_copy"
    /\ \E ok \in BOOLEAN :
          IF ok THEN scratch' = Some(histVisits) /\ pc' = "c_journal"
                ELSE scratch' = scratch /\ pc' = "c_except"
    /\ UNCHANGED <<histExists, histVisits, histJournal, scratchJournal, limit,
                   connOpen, rows, history, retWal, retCopy, tabsVars, fmtVars>>

\* if os.path.exists(journal_path): shutil.copy2(journal_path, temp_path + "-journal")
CopyJournal ==
    /\ pc = "c_journal"
    /\ IF histJournal # None
       THEN \E ok \in BOOLEAN :
               IF ok THEN scratchJournal' = histJournal /\ pc' = "c_connect"
                     ELSE scratchJournal' = scratchJournal /\ pc' = "c_except"
       ELSE scratchJournal' = scratchJournal /\ pc' = "c_connect"
    /\ UNCHANGED <<histExists, histVisits, histJournal, scratch, limit, connOpen,
                   rows, history, retWal, retCopy, tabsVars, fmtVars>>

\* conn = sqlite3.connect(temp_path)
CopyConnect ==
    /\ pc = "c_connect"
    /\ \E ok \in BOOLEAN :
          IF ok THEN connOpen' = TRUE /\ pc' = "c_query"
                ELSE connOpen' = connOpen /\ pc' = "c_except"
    /\ UNCHANGED <<histExists, histVisits, histJournal, scratch, scratchJournal,
                   limit, rows, history, retWal, retCopy, tabsVars, fmtVars>>

\* cursor.execute / fetchall on the scratch copy and the journal next to it
CopyQuery ==
    /\ pc = "c_query"
    /\ \E ok \in BOOLEAN :
          IF ok THEN /\ rows' = Query(Recover(Get(scratch), scratchJournal), limit)
                     /\ scratch' = Some(Recover(Get(scratch), scratchJournal))
                     /\ scratchJournal' = AfterRecover(scratchJournal)
                     /\ pc' = "c_convert"
                ELSE /\ rows' = rows
                     /\ UNCHANGED <<scratch, scratchJournal>>
                     /\ pc' = "c_except"
    /\ UNCHANGED <<histExists, histVisits, histJournal, limit, connOpen, history,
                   retWal, retCopy, tabsVars, fmtVars>>

\* the for loop over rows; converting a row may raise
CopyConvert ==
    /\ pc = "c_convert"
    /\ \E ok \in BOOLEAN :
          IF ok \/ rows = <<>>
          THEN /\ history' = [i \in 1..Len(rows) |-> CopyEntry(rows[i])]
               /\ pc' = "c_close"
          ELSE /\ history' = history
               /\ pc' = "c_except"
    /\ UNCHANGED <<histExists, histVisits, histJournal, scratch, scratchJournal,
                   limit, connOpen, rows, retWal, retCopy, tabsVars, fmtVars>>

\* conn.close()
CopyClose ==
    /\ pc = "c_close"
    /\ connOpen' = FALSE
    /\ pc' = "c_remove"
    /\ UNCHANGED <<histExists, histVisits, histJournal, scratch, scratchJournal,
                   limit, rows, history, retWal, retCopy, tabsVars, fmtVars>>

\* os.remove(temp_path)
CopyRemove ==
    /\ pc = "c_remove"
    /\ \E ok \in BOOLEAN :
          IF ok THEN scratch' = None /\ pc' = "c_remove_journal"
                ELSE scratch' = scratch /\ pc' = "c_except"
    /\ UNCHANGED <<histExists, histVisits, histJournal, scratchJournal, limit,
                   connOpen, rows, history, retWal, retCopy, tabsVars, fmtVars>>

\* if os.path.exists(temp_path + "-journal"): os.remove(...); return history
CopyRemoveJournal ==
    /\ pc = "c_remove_journal"
    /\ \E ok \in BOOLEAN :
          IF ok \/ scratchJournal = None
          THEN /\ scratchJournal' = None
               /\ retCopy' = Ended("returned", history, FALSE, limit)
               /\ pc' = "idle"
               /\ limit' = 0 /\ rows' = <<>> /\ history' = <<>>
          ELSE /\ scratchJournal' = scratchJournal
               /\ retCopy' = retCopy
               /\ pc' = "c_except"
               /\ UNCHANGED <<limit, rows, history>>
    /\ UNCHANGED <<histExists, histVisits, histJournal, scratch, connOpen, retWal,
                   tabsVars, fmtVars>>

\* except Exception: print; if os.path.exists(temp_path): os.remove(temp_path);
\* return [].  The journal copy is not touched.  An os.remove that raises
\* here leaves the function.
CopyExcept ==
    /\ pc = "c_except"
    /\ \E ok \in BOOLEAN :
          IF ok \/ scratch = None
          THEN /\ scratch' = None
               /\ scratchJournal' = scratchJournal
               /\ retCopy' = Ended("returned", <<>>, TRUE, 0)
          ELSE /\ scratch' = scratch
               /\ scratchJournal' = scratchJournal
               /\ retCopy' = Ended("raised", <<>>, TRUE, 0)
    /\ pc' = "idle"
    /\ limit' = 0
    /\ rows' = <<>>
    /\ history' = <<>>
    /\ UNCHANGED <<histExists, histVisits, histJournal, connOpen, retWal, tabsVars, fmtVars>>

NextHistory ==
    \/ BrowserBegin
    \/ BrowserCommit
    \/ GcFinalize
    \/ WalCall
    \/ WalConnect
    \/ WalQuery
    \/ WalConvert
    \/ WalClose
    \/ WalExceptOperational
    \/ WalExcept
    \/ CopyCall
    \/ CopyStore
    \/ CopyJournal
    \/ CopyConnect
    \/ CopyQuery
    \/ CopyConvert
    \/ CopyClose
    \/ CopyRemove
    \/ CopyRemoveJournal
    \/ CopyExcept

-----------------------------------------------------------------------------
(* chromeHistory.py: formatTimeDelta *)

\* Instants the clock and a visit can show: days, seconds of the day and
\* microseconds
SecondSamples == {0, 30, 59, 60, 90, 3599, 3600, 7200, 86399}
FmtTimes == [days : 0..MaxDays, secs : SecondSamples, micros : {0, 500000}]

\* datetime - datetime: a timedelta, normalized by Python to
\* 0 <= microseconds < 1000000 and 0 <= seconds < 86400, days of any sign
TimeDelta(a, b) ==
    LET dm == a.micros - b.micros
        ds == a.secs - b.secs - (IF dm < 0 THEN 1 ELSE 0)
        dd == a.days - b.days - (IF ds < 0 THEN 1 ELSE 0)
    IN  [days |-> dd,
         seconds |-> IF ds < 0 THEN ds + SecondsPerDay ELSE ds,
         microseconds |-> IF dm < 0 THEN dm + MicrosPerSecond ELSE dm]

Unknown == [n |-> 0, unit |-> "Unknown time"]
Ago(n, unit) == [n |-> n, unit |-> unit]

\* the body of formatTimeDelta
FormatDelta(now, visit_datetime) ==
    IF ~IsSome(visit_datetime) THEN Unknown
    ELSE LET delta == TimeDelta(now, Get(visit_datetime))
         IN  IF delta.seconds < 60 THEN Ago(delta.seconds, "seconds")
             ELSE IF delta.seconds < 3600 THEN Ago(delta.seconds \div 60, "minutes")
             ELSE IF delta.days = 0 THEN Ago(delta.seconds \div 3600, "hours")
             ELSE Ago(delta.days, "days")

\* one call: the argument is the caller's, the clock is read once
FormatTimeDelta ==
    /\ \E visit \in {None} \cup {Some(t) : t \in FmtTimes} :
          /\ fmtVisit' = visit
          /\ fmtRet' = Some(FormatDelta(Get(fmtNow), visit))
    /\ UNCHANGED <<fmtNow, tabsVars, histVars>>

NextFormat == FormatTimeDelta

-----------------------------------------------------------------------------
InitTabsIdle ==
    /\ tabsPc = "idle"
    /\ tabsProc = [kind |-> "ok", stdout |-> <<>>]
    /\ tabsRuns = 0
    /\ tabsLines = <<>>
    /\ tabs = <<>>
    /\ tabsRet = NoRet

InitHistIdle ==
    /\ scratch = None
    /\ scratchJournal = None
    /\ pc = "idle"
    /\ limit = 0
    /\ connOpen = FALSE
    /\ rows = <<>>
    /\ history = <<>>
    /\ retWal = NoCall
    /\ retCopy = NoCall

InitFmtIdle ==
    /\ fmtNow = None
    /\ fmtVisit = None
    /\ fmtRet = None

\* The tab lister starts with any set of open tabs
InitTabs ==
    /\ tabsInput \in SeqsUpTo(Items, MaxLines)
    /\ InitTabsIdle
    /\ histExists = TRUE /\ histVisits = <<>> /\ histJournal = None
    /\ InitHistIdle
    /\ InitFmtIdle

SpecTabs == InitTabs /\ [][NextTabs]_vars

\* The readers start with or without a History file, nothing visited yet and
\* no scratch file
InitHistory ==
    /\ histExists \in BOOLEAN
    /\ histVisits = <<>>
    /\ histJournal = None
    /\ InitHistIdle
    /\ tabsInput = <<>>
    /\ InitTabsIdle
    /\ InitFmtIdle

SpecHistory == InitHistory /\ [][NextHistory]_vars

\* The formatter is called at any instant of the clock
InitFormat ==
    /\ fmtNow \in {Some(t) : t \in FmtTimes}
    /\ fmtVisit = None
    /\ fmtRet = None
    /\ histExists = TRUE /\ histVisits = <<>> /\ histJournal = None
    /\ InitHistIdle
    /\ tabsInput = <<>>
    /\ InitTabsIdle

SpecFormat == InitFormat /\ [][NextFormat]_vars
-----------------------------------------------------------------------------
(* Properties of getCurrentChromeTabs *)

HasPipe(s) == \E i \in 1..Len(s) : s[i] = "|"
PipeCount(s) == Cardinality({i \in 1..Len(s) : s[i] = "|"})
Blank(s) == \A i \in 1..Len(s) : IsSpace(s[i])

\* a line url|title|window-index with exactly three fields
WellFormedItem(item) ==
    item.kind = "tab" /\ ~HasPipe(item.url) /\ ~HasPipe(item.title)

\* a line whose field count is not three
WrongCountItem(item) ==
    \/ item.kind = "tab" /\ ~WellFormedItem(item)
    \/ item.kind = "raw" /\ PipeCount(item.text) # 2

RECURSIVE ExpectedTabs(_)
ExpectedTabs(items) ==
    IF items = <<>> THEN <<>>
    ELSE LET it == Head(items)
         IN  (IF WellFormedItem(it)
              THEN <<[url |-> it.url, title |-> it.title, window |-> it.window]>>
              ELSE <<>>) \o ExpectedTabs(Tail(items))

TabsCallEnded == tabsPc = "idle" /\ tabsRet.status # "none"

\* C2: when the osascript subprocess times out or exits with a non-zero
\* status, the call returns an empty list, nothing is raised to the caller,
\* and the subprocess was run once.
C2_FailureYieldsEmpty ==
    (TabsCallEnded /\ tabsProc.kind \in {"timeout", "nonzero"})
        => tabsRet = Returned(<<>>) /\ tabsRuns = 1

\* a non-zero exit whose standard output holds a well-formed tab line
C2_Witness ==
    /\ TabsCallEnded
    /\ tabsProc.kind = "nonzero"
    /\ \E i \in 1..Len(tabsInput) : WellFormedItem(tabsInput[i])
    /\ tabsRet = Returned(<<>>)

C4_Premise ==
    /\ TabsCallEnded
    /\ tabsProc.kind = "ok"
    /\ \A i \in 1..Len(tabsInput) :
          WellFormedItem(tabsInput[i]) \/ WrongCountItem(tabsInput[i])

\* C4 as stated: for every output made of url|title|window-index lines and
\* of lines with a wrong field count, the call returns, in line order, exactly
\* the triple of every three-field line, and drops the others without error.
C4_RoundTrip_Original ==
    C4_Premise => tabsRet = Returned(ExpectedTabs(tabsInput))

\* the first line that is not blank, when it is a three-field line, has a url
\* that does not begin with whitespace
StripSafe(items) ==
    \A k \in 1..Len(items) :
        (/\ WellFormedItem(items[k])
         /\ \A j \in 1..(k - 1) : Blank(RenderLine(items[j])))
            => ~(items[k].url # <<>> /\ IsSpace(Head(items[k].url)))

\* C4 amended: the same round trip, for outputs whose first non-blank line,
\* when it is a three-field line, has a url without leading whitespace (the
\* whole output is stripped before it is split).
C4_RoundTrip ==
    (C4_Premise /\ StripSafe(tabsInput))
        => tabsRet = Returned(ExpectedTabs(tabsInput))

\* a two-field line is dropped and the three-field line after it, whose url
\* begins with whitespace, is recovered exactly
C4_Witness ==
    /\ C4_Premise
    /\ StripSafe(tabsInput)
    /\ Len(tabsInput) = 2
    /\ tabsInput[1].kind = "raw" /\ PipeCount(tabsInput[1].text) = 1
    /\ WellFormedItem(tabsInput[2])
    /\ tabsInput[2].url = <<" ", "a">>
    /\ tabsInput[2].window = 12
    /\ Len(tabsRet.value) = 1
    /\ tabsRet.value[1].url = <<" ", "a">>

\* C5: every malformed or empty line, a three-field line with a non-integer
\* window field included, is skipped silently: the call returns one record
\* for each well-formed line of the output.
C5_MalformedSkipped ==
    (TabsCallEnded /\ tabsProc.kind = "ok")
        => /\ tabsRet.status = "returned"
           /\ Len(tabsRet.value) =
                  Cardinality({i \in 1..Len(tabsInput) : WellFormedItem(tabsInput[i])})
-----------------------------------------------------------------------------
(* Properties of the two history readers *)

CopyPastCheck == pc = "idle" /\ histExists /\ retCopy.status # "none"

\* C1: after an invocation of getRecentChromeHistoryCopy that got past the
\* store-exists check and returned, with rows or after a failure at any step,
\* neither the scratch file nor its sidecar exists.
C1_ScratchRemoved ==
    (CopyPastCheck /\ retCopy.status = "returned")
        => scratch = None /\ scratchJournal = None

\* C3: in both readers every failure ends in the call returning an empty
\* list; no exception is propagated to the caller.
C3_NoPropagation ==
    pc = "idle" =>
        /\ retWal.status # "raised"
        /\ retCopy.status # "raised"
        /\ retWal.failed => retWal.value = <<>>
        /\ retCopy.failed => retCopy.value = <<>>

\* t / 1,000,000 - 11,644,473,600 seconds since 1970, in days, seconds and
\* microseconds
ConvertedTime(t) ==
    [days |-> (t \div MicrosPerSecond) \div SecondsPerDay - EpochOffsetDays,
     secs |-> (t \div MicrosPerSecond) % SecondsPerDay,
     micros |-> t % MicrosPerSecond]

Converted == pc \in {"w_close", "c_close"}

\* C6 as stated: every non-null timestamp t, 0 included, is converted to
\* t / 1,000,000 - 11,644,473,600 seconds since 1970, and only a null
\* timestamp yields an absent visit_time.
C6_Conversion_Original ==
    Converted =>
        \A i \in 1..Len(rows) :
            history[i].visit_time =
                IF IsSome(rows[i].chrome_time)
                THEN Some(ConvertedTime(Get(rows[i].chrome_time)))
                ELSE None

\* C6 amended: in both readers a null timestamp and a timestamp of 0 yield an
\* absent visit_time; every other timestamp t is converted to
\* t / 1,000,000 - 11,644,473,600 seconds since 1970.
C6_Conversion ==
    Converted =>
        /\ Len(history) = Len(rows)
        /\ \A i \in 1..Len(rows) :
              history[i].visit_time =
                  IF IsSome(rows[i].chrome_time) /\ Get(rows[i].chrome_time) # 0
                  THEN Some(ConvertedTime(Get(rows[i].chrome_time)))
                  ELSE None

\* the copy reader has converted a visit at 1.5 s after the 1601 epoch and a
\* visit whose timestamp is 0
C6_Witness ==
    /\ pc = "c_close"
    /\ Len(rows) = 2
    /\ rows[1].chrome_time = Some(1500000)
    /\ history[1].visit_time = Some([days |-> -134774, secs |-> 1, micros |-> 500000])
    /\ rows[2].chrome_time = Some(0)
    /\ history[2].visit_time = None

BothSucceeded ==
    /\ pc = "idle"
    /\ retWal.status = "returned" /\ ~retWal.failed
    /\ retCopy.status = "returned" /\ ~retCopy.failed
    /\ retWal.limit = retCopy.limit

\* C8: for the same store contents and the same limit, when neither reader
\* hits a failure, both return the same list: the at most N most recent
\* visits, titles and durations defaulted.
C8_Interchangeable ==
    BothSucceeded =>
        /\ retWal.value = retCopy.value
        /\ Len(retCopy.value) = Min(retCopy.limit, Len(Join(histVisits)))
        /\ \A i \in 1..Len(retCopy.value) : retCopy.value[i].title # ""

\* C9: a call of getRecentChromeHistoryCopy depends only on the browser's
\* store and sidecar at the time of the call: what it queries is the copy of
\* that store with the copy of that sidecar and nothing else, and what it
\* returns is what that store holds.
C9_CallsIndependent ==
    /\ pc = "c_query" => scratch = Some(histVisits) /\ scratchJournal = histJournal
    /\ (CopyPastCheck /\ retCopy.status = "returned" /\ ~retCopy.failed)
          => retCopy.value =
                [i \in 1..Len(Query(histVisits, retCopy.limit)) |->
                    CopyEntry(Query(histVisits, retCopy.limit)[i])]

\* C10: a connection that was opened is closed when the function returns, on
\* the success path and on every error path, and the scratch file is never
\* removed while a connection to it is open.
C10_ConnectionsClosed ==
    /\ [](pc = "idle" => ~connOpen)
    /\ [][(scratch # None /\ scratch' = None) => ~connOpen]_vars

-----------------------------------------------------------------------------
(* Properties of formatTimeDelta *)

\* whole seconds elapsed from the visit to the clock's instant
ElapsedSeconds(now, visit) ==
    (now.days - visit.days) * SecondsPerDay + (now.secs - visit.secs)
        - (IF now.micros < visit.micros THEN 1 ELSE 0)

\* C7: formatTimeDelta buckets by the total time elapsed since the visit:
\* "Unknown time" for an absent timestamp, seconds below 60 s, minutes below
\* 3600 s, hours below one day, days from one day on.
C7_Buckets ==
    IsSome(fmtRet) =>
        IF ~IsSome(fmtVisit) THEN Get(fmtRet).unit = "Unknown time"
        ELSE LET d == ElapsedSeconds(Get(fmtNow), Get(fmtVisit))
             IN  /\ (0 <= d /\ d < 60) => Get(fmtRet).unit = "seconds"
                 /\ (60 <= d /\ d < 3600) => Get(fmtRet).unit = "minutes"
                 /\ (3600 <= d /\ d < SecondsPerDay) => Get(fmtRet).unit = "hours"
                 /\ d >= SecondsPerDay => Get(fmtRet).unit = "days"
====
